---- MODULE Spec2Model ----
(***************************************************************************)
(* Model of schedule_generator.py: the time parser (TimeValidator), the    *)
(* contrast colour selector (get_text_color), the event list handlers      *)
(* (add_event, delete_event) and the export (generate_pdf and              *)
(* create_schedule_pdf).                                                   *)
(*                                                                         *)
(* Strings are sequences of one-character strings, so that strip, upper,   *)
(* the regular expressions, int() and slicing are computed character by    *)
(* character as Python computes them.                                      *)
(***************************************************************************)
EXTENDS Integers, Sequences, FiniteSets, TLC

VARIABLES
    \* TimeValidator.parse_time, one loop iteration per step
    parse_arg,      \* the string parse_time was called with
    time_str,       \* the local time_str: the normalised string (line 27)
    pattern_idx,    \* position of the for loop over patterns (line 43)
    parse_pc,       \* "idle" | "loop" | "returned" | "raised"
    parse_out,      \* the returned (hour, minute), <<>> otherwise
    \* a comparison of two time_to_float results
    cmp_a, cmp_b,   \* the two time strings
    cmp_fa, cmp_fb, \* their floats
    cmp_pc,         \* "idle" | "called" | "converted" | "compared" | "raised"
    cmp_less,       \* the value of time_to_float(a) < time_to_float(b)
    \* ScheduleGenerator.get_text_color
    hex_color,      \* the argument
    rgb,            \* the decoded channels <<r, g, b>>
    color_pc,       \* "idle" | "called" | "decoded" | "returned" | "raised"
    color_out,      \* "black" | "white", <<>> otherwise
    \* ScheduleGenerator (the application)
    events,         \* self.events: the list of ScheduleEvent
    events_tree,    \* the rows of the Treeview, each with its selected flag
    color_presets,  \* self.color_presets: colour name -> hex string
    day_vars,       \* self.day_vars: day -> the checkbutton's boolean
    end_hour_var,   \* self.end_hour_var
    prof_name_var,  \* self.prof_name_var
    handler,        \* the handler or widget action that happened last
    message,        \* the messagebox it showed
    export,         \* what it did of an export: the save dialog asked, the
                    \* layout invoked, a file written, and that file
    last_add        \* history of the list: whether an add_event was the last
                    \* change of self.events, the list it appended to,
                    \* whether the last change deleted the row just added,
                    \* and the position of the row the last change deleted

parse_vars == <<parse_arg, time_str, pattern_idx, parse_pc, parse_out>>
cmp_vars   == <<cmp_a, cmp_b, cmp_fa, cmp_fb, cmp_pc, cmp_less>>
color_vars == <<hex_color, rgb, color_pc, color_out>>
config_vars == <<day_vars, end_hour_var, prof_name_var>>
list_vars   == <<events, events_tree, color_presets>>
out_vars    == <<handler, message, export>>
app_vars    == <<list_vars, config_vars, out_vars, last_add>>

vars == <<parse_vars, cmp_vars, color_vars, app_vars>>

\* the variables a part of the model leaves alone
other_than_parse == <<cmp_vars, color_vars, app_vars>>
other_than_cmp   == <<parse_vars, color_vars, app_vars>>
other_than_color == <<parse_vars, cmp_vars, app_vars>>
other_than_app   == <<parse_vars, cmp_vars, color_vars>>

----------------------------------------------------------------------------
(* Characters and string helpers (Python str methods) *)

Digits == {"0", "1", "2", "3", "4", "5", "6", "7", "8", "9"}

\* the whitespace characters that have no escape in a string, written as
\* the characters themselves
VT   == ""     \* \x0b, vertical tab
FS   == ""     \* \x1c, file separator
GS   == ""     \* \x1d, group separator
RS   == ""     \* \x1e, record separator
US   == ""     \* \x1f, unit separator
NEL  == ""     \* \x85, next line
NBSP == " "     \* \xa0, no-break space

\* the whitespace of str.strip() and of \s: the characters below U+0100
\* that str.isspace() accepts.  (The Unicode spaces above U+00FF are
\* whitespace too; no string of the model holds one.)
Whitespace == {" ", "\t", "\n", "\r", "\f", VT, FS, GS, RS, US, NEL, NBSP}

\* the whitespace that int() skips: it does not take \x1c-\x1f
IntWhitespace == Whitespace \ {FS, GS, RS, US}

DigitVal(c) ==
    CASE c = "0" -> 0 [] c = "1" -> 1 [] c = "2" -> 2 [] c = "3" -> 3
      [] c = "4" -> 4 [] c = "5" -> 5 [] c = "6" -> 6 [] c = "7" -> 7
      [] c = "8" -> 8 [] c = "9" -> 9

LowerLetters == <<"a", "b", "c", "d", "e", "f", "g", "h", "i", "j", "k", "l", "m",
                  "n", "o", "p", "q", "r", "s", "t", "u", "v", "w", "x", "y", "z",
                  "à", "á", "â", "ã", "ä", "å", "æ", "ç", "è", "é", "ê",
                  "ë", "ì", "í", "î", "ï", "ð", "ñ", "ò", "ó", "ô", "õ",
                  "ö", "ø", "ù", "ú", "û", "ü", "ý", "þ">>
UpperLetters == <<"A", "B", "C", "D", "E", "F", "G", "H", "I", "J", "K", "L", "M",
                  "N", "O", "P", "Q", "R", "S", "T", "U", "V", "W", "X", "Y", "Z",
                  "À", "Á", "Â", "Ã", "Ä", "Å", "Æ", "Ç", "È", "É", "Ê",
                  "Ë", "Ì", "Í", "Î", "Ï", "Ð", "Ñ", "Ò", "Ó", "Ô", "Õ",
                  "Ö", "Ø", "Ù", "Ú", "Û", "Ü", "Ý", "Þ">>

\* U+039C and U+0178, the capitals of "µ" and "ÿ": one character
\* each, written by its code point because a string here holds no
\* character above U+00FF
CapitalMu         == "U+039C"
CapitalYDiaeresis == "U+0178"

\* what str.upper() puts for the letters it changes: the capital of each
\* lower-case letter, two characters for the sharp s
UpperTable ==
    [c \in {LowerLetters[i] : i \in DOMAIN LowerLetters}
            \cup {"ß", "µ", "ÿ"} |->
        CASE c = "ß" -> <<"S", "S">>
          [] c = "µ" -> <<CapitalMu>>
          [] c = "ÿ" -> <<CapitalYDiaeresis>>
          [] OTHER -> <<UpperLetters[CHOOSE i \in DOMAIN LowerLetters :
                                        LowerLetters[i] = c]>>]

\* str.upper() on the one character c: the characters it puts for c
UpperChar(c) == IF c \in DOMAIN UpperTable THEN UpperTable[c] ELSE <<c>>

\* str.upper()
RECURSIVE Upper(_)
Upper(s) == IF s = <<>> THEN <<>> ELSE UpperChar(Head(s)) \o Upper(Tail(s))

\* s without its leading characters of chars
RECURSIVE LStripOf(_, _)
LStripOf(s, chars) ==
    IF s # <<>> /\ Head(s) \in chars THEN LStripOf(Tail(s), chars) ELSE s

LStrip(s) == LStripOf(s, Whitespace)

\* s without its trailing characters of chars
RECURSIVE RStripOf(_, _)
RStripOf(s, chars) ==
    IF s # <<>> /\ s[Len(s)] \in chars
    THEN RStripOf(SubSeq(s, 1, Len(s) - 1), chars) ELSE s

RStrip(s) == RStripOf(s, Whitespace)

\* str.strip()
Strip(s) == LStrip(RStrip(s))

\* str.isdigit(): non-empty and every character a digit
IsDigit(s) == s # <<>> /\ \A i \in 1..Len(s) : s[i] \in Digits

\* int(s) for a string of decimal digits
RECURSIVE StrToInt(_)
StrToInt(s) ==
    IF s = <<>> THEN 0
    ELSE 10 * StrToInt(SubSeq(s, 1, Len(s) - 1)) + DigitVal(s[Len(s)])

DigitChar(d) ==
    CASE d = 0 -> "0" [] d = 1 -> "1" [] d = 2 -> "2" [] d = 3 -> "3"
      [] d = 4 -> "4" [] d = 5 -> "5" [] d = 6 -> "6" [] d = 7 -> "7"
      [] d = 8 -> "8" [] d = 9 -> "9"

\* str(n) for an int n >= 0
RECURSIVE IntToStr(_)
IntToStr(n) ==
    IF n < 10 THEN <<DigitChar(n)>>
    ELSE Append(IntToStr(n \div 10), DigitChar(n % 10))

----------------------------------------------------------------------------
(* re.match on the five patterns of parse_time.  A pattern is a sequence   *)
(* of items: a character class repeated min..max times (greedy), or an     *)
(* alternation of literal words; "grp" marks a capturing group.  The       *)
(* trailing $ is the end-of-string test (the string is stripped, so it     *)
(* has no trailing newline).                                               *)

NoMatch == <<"nomatch">>

Inf == 1000   \* upper repetition bound of *, above any string length

ReDigits(lo, hi) == [kind |-> "class", chars |-> Digits, min |-> lo, max |-> hi, grp |-> TRUE]
ReLit(c)         == [kind |-> "class", chars |-> {c}, min |-> 1, max |-> 1, grp |-> FALSE]
ReSpaces         == [kind |-> "class", chars |-> Whitespace, min |-> 0, max |-> Inf, grp |-> FALSE]
ReAmPm           == [kind |-> "alt", words |-> << <<"A", "M">>, <<"P", "M">> >>, grp |-> TRUE]

\* number of leading characters of s, from pos, that lie in chars (at most hi)
RECURSIVE RunLength(_, _, _, _)
RunLength(s, pos, chars, hi) ==
    IF hi = 0 \/ pos > Len(s) \/ s[pos] \notin chars THEN 0
    ELSE 1 + RunLength(s, pos + 1, chars, hi - 1)

StartsWith(s, pos, w) ==
    /\ pos + Len(w) - 1 <= Len(s)
    /\ \A k \in 1..Len(w) : s[pos + k - 1] = w[k]

RECURSIVE ReMatchFrom(_, _, _, _)
RECURSIVE ReTryCount(_, _, _, _, _)
RECURSIVE ReTryWord(_, _, _, _, _)

\* the groups captured by items i.. of re on s from pos, or NoMatch
ReMatchFrom(re, i, s, pos) ==
    IF i > Len(re) THEN (IF pos = Len(s) + 1 THEN <<>> ELSE NoMatch)
    ELSE IF re[i].kind = "class"
         THEN ReTryCount(re, i, s, pos,
                         RunLength(s, pos, re[i].chars, re[i].max))
         ELSE ReTryWord(re, i, s, pos, 1)

\* greedy repetition: the longest count first, then backtrack
ReTryCount(re, i, s, pos, n) ==
    IF n < re[i].min THEN NoMatch
    ELSE LET rest == ReMatchFrom(re, i + 1, s, pos + n)
         IN  IF rest # NoMatch
             THEN (IF re[i].grp
                   THEN <<SubSeq(s, pos, pos + n - 1)>> \o rest ELSE rest)
             ELSE ReTryCount(re, i, s, pos, n - 1)

\* alternation: the words in their written order
ReTryWord(re, i, s, pos, w) ==
    IF w > Len(re[i].words) THEN NoMatch
    ELSE LET word == re[i].words[w]
             rest == IF StartsWith(s, pos, word)
                     THEN ReMatchFrom(re, i + 1, s, pos + Len(word))
                     ELSE NoMatch
         IN  IF rest # NoMatch
             THEN (IF re[i].grp THEN <<word>> \o rest ELSE rest)
             ELSE ReTryWord(re, i, s, pos, w + 1)

\* re.match(pattern, s): match.groups(), or NoMatch
ReMatch(re, s) == ReMatchFrom(re, 1, s, 1)

\* the list "patterns" of parse_time, in its declared order
patterns == <<
    [re |-> <<ReDigits(1, 2), ReLit(":"), ReDigits(2, 2), ReSpaces, ReAmPm>>,
     has_period |-> TRUE],
    [re |-> <<ReDigits(1, 2), ReLit(":"), ReDigits(2, 2)>>,
     has_period |-> FALSE],
    [re |-> <<ReDigits(1, 2), ReSpaces, ReAmPm>>,
     has_period |-> TRUE],
    [re |-> <<ReDigits(1, 2), ReLit("."), ReDigits(2, 2), ReSpaces, ReAmPm>>,
     has_period |-> TRUE],
    [re |-> <<ReDigits(1, 2), ReLit("."), ReDigits(2, 2)>>,
     has_period |-> FALSE] >>

NumPatterns == Len(patterns)

----------------------------------------------------------------------------
(* TimeValidator.parse_time *)

\* ConvertHour without the exception for 12 PM
ConvertHour_NoNoonCase(hour, has_period, period) ==
    IF has_period
    THEN IF period = <<"P", "M">> THEN hour + 12
         ELSE IF period = <<"A", "M">> /\ hour = 12 THEN 0
         ELSE hour
    ELSE hour

\* the AM/PM conversion of lines 56-61
ConvertHour(hour, has_period, period) ==
    IF has_period
    THEN IF period = <<"P", "M">> /\ hour # 12 THEN hour + 12
         ELSE IF period = <<"A", "M">> /\ hour = 12 THEN 0
         ELSE hour
    ELSE hour

\* the range test of line 64
InRange(hour, minute) ==
    0 <= hour /\ hour <= 23 /\ 0 <= minute /\ minute <= 59

\* lines 44-67 on the result of re.match: "next" (no match), "return" with
\* the pair, or "break" (out of range)
MatchOutcome(groups, has_period) ==
    IF groups = NoMatch THEN [kind |-> "next"]
    ELSE LET h0     == StrToInt(groups[1])
             minute == IF Len(groups) >= 2 /\ groups[2] # <<>>
                          /\ IsDigit(groups[2])
                       THEN StrToInt(groups[2]) ELSE 0
             hour   == ConvertHour(h0, has_period, groups[Len(groups)])
         IN  IF InRange(hour, minute)
             THEN [kind |-> "return", hour |-> hour, minute |-> minute]
             ELSE [kind |-> "break"]

\* one iteration of the for loop (lines 43-67) on the normalised string
TryPattern(s, i) ==
    MatchOutcome(ReMatch(patterns[i].re, s), patterns[i].has_period)

Invalid == <<"ValueError">>

RECURSIVE ParseLoop(_, _)

\* what the loop does with the outcome r of iteration i
LoopBody(r, s, i) ==
    CASE r.kind = "return" -> <<r.hour, r.minute>>
      [] r.kind = "break"  -> Invalid
      [] r.kind = "next"   -> ParseLoop(s, i + 1)

\* the loop from pattern i on: the returned pair, or Invalid (line 69)
ParseLoop(s, i) ==
    IF i > NumPatterns THEN Invalid ELSE LoopBody(TryPattern(s, i), s, i)

Normalize(text) == Upper(Strip(text))

\* parse_time(time_str): <<hour, minute>>, or Invalid for the ValueError
parse_time(text) == ParseLoop(Normalize(text), 1)

----------------------------------------------------------------------------
(* Python floats (IEEE 754 binary64, round to nearest, ties to even).      *)
(* A float is held exactly as a fixed-point number with 60 fractional      *)
(* bits, in four limbs <<integer part, f1, f2, f3>> of 20 bits each: every *)
(* double between 2^-7 and 2^20 is such a number.  Each operation computes *)
(* the exact result and rounds it to 53 significant bits.                  *)

LimbBits == 20
Limb     == 2 ^ LimbBits
Mantissa == 53          \* significant bits of a binary64
FracBits == 3 * LimbBits

FZero == <<0, 0, 0, 0>>

RECURSIVE BitLen(_)
BitLen(n) == IF n = 0 THEN 0 ELSE 1 + BitLen(n \div 2)

\* propagate the carries of limbs that exceed 20 bits
Carry(x) ==
    LET c3 == x[4] \div Limb
        s2 == x[3] + c3
        c2 == s2 \div Limb
        s1 == x[2] + c2
        c1 == s1 \div Limb
    IN  <<x[1] + c1, s1 % Limb, s2 % Limb, x[4] % Limb>>

\* position of the leading bit: the value lies in [2^(k-1), 2^k)
Magnitude(x) ==
    IF x[1] > 0 THEN BitLen(x[1])
    ELSE IF x[2] > 0 THEN BitLen(x[2]) - LimbBits
    ELSE IF x[3] > 0 THEN BitLen(x[3]) - 2 * LimbBits
    ELSE BitLen(x[4]) - 3 * LimbBits

\* round the exact value x (+ a nonzero remainder below the last bit when
\* sticky) to 53 significant bits, ties to even
RoundToDouble(x, sticky) ==
    IF x = FZero THEN x
    ELSE LET drop == FracBits - (Mantissa - Magnitude(x))
         IN  IF drop <= 0 THEN x
             ELSE LET q    == 2 ^ drop
                      rem  == x[4] % q
                      half == q \div 2
                      odd  == (x[4] \div q) % 2 = 1
                      up   == \/ rem > half
                              \/ rem = half /\ (sticky \/ odd)
                  IN  Carry(<<x[1], x[2], x[3],
                              x[4] - rem + (IF up THEN q ELSE 0)>>)

\* float(n) for a small non-negative int
FFromInt(n) == <<n, 0, 0, 0>>

\* x + y
FAdd(x, y) ==
    RoundToDouble(Carry(<<x[1] + y[1], x[2] + y[2], x[3] + y[3], x[4] + y[4]>>),
                  FALSE)

\* x * n for a float x below 1 and an int n in 0..255
FMulInt(x, n) ==
    RoundToDouble(Carry(<<x[1] * n, x[2] * n, x[3] * n, x[4] * n>>), FALSE)

\* n / d as a float, for ints 0 <= n < d < 2^11: long division, one limb
\* per step, then the rounding.  It is also the value of a decimal literal
\* such as 0.299 (n = 299, d = 1000).
FDivInt(n, d) ==
    LET q1 == (n * Limb) \div d
        r1 == (n * Limb) % d
        q2 == (r1 * Limb) \div d
        r2 == (r1 * Limb) % d
        q3 == (r2 * Limb) \div d
        r3 == (r2 * Limb) % d
    IN  RoundToDouble(<<0, q1, q2, q3>>, r3 # 0)

\* x < y
FLess(x, y) ==
    \/ x[1] < y[1]
    \/ x[1] = y[1] /\ x[2] < y[2]
    \/ x[1] = y[1] /\ x[2] = y[2] /\ x[3] < y[3]
    \/ x[1] = y[1] /\ x[2] = y[2] /\ x[3] = y[3] /\ x[4] < y[4]

\* x >= y
FGeq(x, y) == ~FLess(x, y)

----------------------------------------------------------------------------
(* TimeValidator.time_to_float *)

\* HourFloat with an integer division: hour + minute // 60
HourFloat_FloorDiv(hour, minute) == FAdd(FFromInt(hour), FFromInt(minute \div 60))

\* hour + minute / 60.0 (line 74)
HourFloat(hour, minute) == FAdd(FFromInt(hour), FDivInt(minute, 60))

\* line 74 on what parse_time returned
FloatOfTime(t) == IF t = Invalid THEN Invalid ELSE HourFloat(t[1], t[2])

\* time_to_float(time_str): the float, or Invalid when parse_time raises
time_to_float(text) == FloatOfTime(parse_time(text))

----------------------------------------------------------------------------
(* Signed floats, for a luminance whose channels int() may return negative *)

Abs(n) == IF n < 0 THEN -n ELSE n

\* x - y for magnitudes x >= y
FSubMag(x, y) ==
    RoundToDouble(Carry(<<x[1] - y[1], x[2] - y[2], x[3] - y[3], x[4] - y[4]>>),
                  FALSE)

\* c * n for a float constant c in (0, 1) and an int n
SMulInt(c, n) == [neg |-> n < 0, mag |-> FMulInt(c, Abs(n))]

\* a + b
SAdd(a, b) ==
    IF a.neg = b.neg THEN [neg |-> a.neg, mag |-> FAdd(a.mag, b.mag)]
    ELSE IF FLess(a.mag, b.mag)
         THEN [neg |-> b.neg, mag |-> FSubMag(b.mag, a.mag)]
         ELSE [neg |-> a.neg, mag |-> FSubMag(a.mag, b.mag)]

\* a > t for a non-negative float t
SGreater(a, t) == ~a.neg /\ FLess(t, a.mag)

----------------------------------------------------------------------------
(* ScheduleGenerator.get_text_color *)

HexDigits == Digits \cup {"a", "b", "c", "d", "e", "f",
                          "A", "B", "C", "D", "E", "F"}

HexVal(c) ==
    CASE c \in Digits -> DigitVal(c)
      [] c \in {"a", "A"} -> 10 [] c \in {"b", "B"} -> 11
      [] c \in {"c", "C"} -> 12 [] c \in {"d", "D"} -> 13
      [] c \in {"e", "E"} -> 14 [] c \in {"f", "F"} -> 15

RECURSIVE HexToInt(_)
HexToInt(s) ==
    IF s = <<>> THEN 0
    ELSE 16 * HexToInt(SubSeq(s, 1, Len(s) - 1)) + HexVal(s[Len(s)])

IsHex(s) == s # <<>> /\ \A i \in 1..Len(s) : s[i] \in HexDigits

\* the argument of int() without the whitespace around it
IntStrip(s) == LStripOf(RStripOf(s, IntWhitespace), IntWhitespace)

\* int(t, 16) for a stripped string t of at most two characters
IntHexOf(t) ==
    LET bad == [ok |-> FALSE, val |-> 0]
    IN  IF t = <<>> THEN bad
        ELSE IF t[1] \in {"+", "-"}
             THEN IF IsHex(Tail(t))
                  THEN [ok |-> TRUE,
                        val |-> IF t[1] = "-" THEN -HexToInt(Tail(t))
                                ELSE HexToInt(Tail(t))]
                  ELSE bad
             ELSE IF IsHex(t) THEN [ok |-> TRUE, val |-> HexToInt(t)] ELSE bad

\* int(s, 16) for a slice s of at most two characters: surrounding
\* whitespace and one sign are accepted; ok is FALSE for the ValueError.
\* (A "0x" prefix or an underscore needs three characters to be accepted.)
PyIntHex(s) == IntHexOf(IntStrip(s))

\* s[lo:hi] with 0 <= lo <= hi
Slice(s, lo, hi) ==
    SubSeq(s, lo + 1, IF hi < Len(s) THEN hi ELSE Len(s))

\* str.lstrip('#')
RECURSIVE LStripHash(_)
LStripHash(s) ==
    IF s # <<>> /\ Head(s) = "#" THEN LStripHash(Tail(s)) ELSE s

\* the three channels once int() has run on each slice
Channels(r, g, b) ==
    IF r.ok /\ g.ok /\ b.ok THEN <<r.val, g.val, b.val>> ELSE Invalid

\* lines 327-329 on the string without its leading '#'
DecodeSlices(h) ==
    Channels(PyIntHex(Slice(h, 0, 2)), PyIntHex(Slice(h, 2, 4)),
             PyIntHex(Slice(h, 4, 6)))

\* lines 324-329: <<r, g, b>>, or Invalid when an int() raises
DecodeRGB(hex) == DecodeSlices(LStripHash(hex))

\* line 332: (0.299 * r) + (0.587 * g) + (0.114 * b)
Luminance(r, g, b) ==
    SAdd(SAdd(SMulInt(FDivInt(299, 1000), r), SMulInt(FDivInt(587, 1000), g)),
         SMulInt(FDivInt(114, 1000), b))

\* the float 127.5
Threshold == <<127, Limb \div 2, 0, 0>>

\* line 335
PickColor(r, g, b) ==
    IF SGreater(Luminance(r, g, b), Threshold) THEN "black" ELSE "white"

\* lines 332-335 on the decoded channels
ColorOfChannels(c) ==
    IF c = Invalid THEN "ValueError" ELSE PickColor(c[1], c[2], c[3])

\* get_text_color(hex_color): "black", "white", or "ValueError"
get_text_color(hex) == ColorOfChannels(DecodeRGB(hex))

----------------------------------------------------------------------------
(* ScheduleGenerator: the state after __init__ and setup_ui *)

Monday    == <<"M", "o", "n", "d", "a", "y">>
Tuesday   == <<"T", "u", "e", "s", "d", "a", "y">>
Wednesday == <<"W", "e", "d", "n", "e", "s", "d", "a", "y">>
Thursday  == <<"T", "h", "u", "r", "s", "d", "a", "y">>
Friday    == <<"F", "r", "i", "d", "a", "y">>

\* the order of the day checkbuttons (line 198)
DayOrder == <<Monday, Tuesday, Wednesday, Thursday, Friday>>

Days == {DayOrder[i] : i \in 1..Len(DayOrder)}

\* the values of the end-time combobox (line 207)
EndHourTexts ==
    { <<"6", " ", "P", "M">>, <<"7", " ", "P", "M">>,
      <<"8", " ", "P", "M">>, <<"9", " ", "P", "M">>,
      <<"1", "0", " ", "P", "M">>, <<"1", "1", " ", "P", "M">> }

\* self.color_presets (lines 85-96)
InitialPresets ==
    ("ETSU Gold" :> <<"#", "f", "f", "c", "4", "2", "3">>) @@
    ("ETSU Blue" :> <<"#", "0", "0", "2", "d", "6", "2">>) @@
    ("Blue" :> <<"#", "3", "4", "9", "8", "d", "b">>) @@
    ("Orange" :> <<"#", "e", "6", "7", "e", "2", "2">>) @@
    ("Green" :> <<"#", "2", "7", "a", "e", "6", "0">>) @@
    ("Purple" :> <<"#", "9", "b", "5", "9", "b", "6">>) @@
    ("Red" :> <<"#", "e", "7", "4", "c", "3", "c">>) @@
    ("Teal" :> <<"#", "1", "a", "b", "c", "9", "c">>) @@
    ("Yellow" :> <<"#", "f", "1", "c", "4", "0", "f">>) @@
    ("Gray" :> <<"#", "7", "f", "8", "c", "8", "d">>)

\* the fallback of color_presets.get (line 258)
DefaultColor == <<"#", "3", "4", "9", "8", "d", "b">>

NoMessage == [kind |-> "none", text |-> ""]
NoFile    == <<"nofile">>
NoExport  == [asked |-> FALSE, layout |-> FALSE, written |-> FALSE,
              file |-> NoFile]
NoAdd     == [pending |-> FALSE, list |-> <<>>, undone |-> FALSE,
              removed |-> 0]

AppInit ==
    /\ events = <<>>
    /\ events_tree = <<>>
    /\ color_presets = InitialPresets
    /\ day_vars = [d \in Days |-> TRUE]
    /\ end_hour_var = <<"6", " ", "P", "M">>
    /\ prof_name_var = <<>>
    /\ handler = "none"
    /\ message = NoMessage
    /\ export = NoExport
    /\ last_add = NoAdd

----------------------------------------------------------------------------
(* add_event and delete_event *)

\* dict.get(key, default)
DictGet(dict, key, default) ==
    IF key \in DOMAIN dict THEN dict[key] ELSE default

\* start_float >= end_float with > in place of >=
StartNotBeforeEnd_Strict(start_float, end_float) == FLess(end_float, start_float)

\* the test of line 254
StartNotBeforeEnd(start_float, end_float) == FGeq(start_float, end_float)

\* the text of the Time column (line 265)
TimeColumn(start_time, end_time) == start_time \o <<" ", "-", " ">> \o end_time

\* lines 236-266 on the contents of the form: the event and the row that
\* add_event appends, or the error it shows
AddOutcome(title_in, day, start_in, end_in, location_in, color_name, presets) ==
    LET title      == Strip(title_in)
        start_time == Strip(start_in)
        end_time   == Strip(end_in)
        location   == Strip(location_in)
        rejected(text) == [kind |-> "rejected",
                           message |-> [kind |-> "error", text |-> text]]
    IN  IF title = <<>> \/ day = <<>> \/ start_time = <<>> \/ end_time = <<>>
        THEN rejected("Please fill in all required fields")
        ELSE IF parse_time(start_time) = Invalid \/ parse_time(end_time) = Invalid
        THEN rejected("Invalid time format")
        ELSE IF StartNotBeforeEnd(time_to_float(start_time),
                                  time_to_float(end_time))
        THEN rejected("Start time must be before end time")
        ELSE [kind |-> "added",
              message |-> NoMessage,
              event |-> [title |-> title, day |-> day,
                         start_time |-> start_time, end_time |-> end_time,
                         location |-> location,
                         color |-> DictGet(presets, color_name, DefaultColor)],
              row |-> [values |-> <<day, TimeColumn(start_time, end_time),
                                    title, location, color_name>>,
                       selected |-> FALSE]]

MaxEvents == 3      \* events held at a time

\* events_tree.insert that puts the new row first: insert("", 0, ...)
TreeInsertEnd_First(tree, row) == <<row>> \o tree

\* events_tree.insert("", "end", values=...) (line 264)
TreeInsertEnd(tree, row) == Append(tree, row)

\* what add_event does of the outcome r: lines 260-266, or the messagebox
AddEffect(r) ==
    /\ IF r.kind = "added"
       THEN /\ events' = Append(events, r.event)
            /\ events_tree' = TreeInsertEnd(events_tree, r.row)
            /\ last_add' = [pending |-> TRUE, list |-> events,
                            undone |-> FALSE, removed |-> 0]
       ELSE UNCHANGED <<events, events_tree, last_add>>
    /\ message' = r.message
    /\ handler' = "add_event"
    /\ export' = NoExport
    /\ UNCHANGED <<color_presets, config_vars>>
    /\ UNCHANGED other_than_app

\* add_event, with the form holding the given strings; the button is
\* pressed while the list holds fewer than MaxEvents events
add_event(title_in, day, start_in, end_in, location_in, color_name) ==
    /\ Len(events) < MaxEvents
    /\ AddEffect(AddOutcome(title_in, day, start_in, end_in, location_in,
                            color_name, color_presets))

\* RemoveAt that removes the first element whatever the index
RemoveAt_First(s, i) == Tail(s)

\* the list s without its element at position i (1-based): del s[i - 1]
RemoveAt(s, i) == SubSeq(s, 1, i - 1) \o SubSeq(s, i + 1, Len(s))

\* the positions of the selected rows: events_tree.selection(), in the
\* order of the rows
Selection(tree) == {i \in 1..Len(tree) : tree[i].selected}

\* events_tree.index(selection[0]), 1-based (line 285)
SelectedIndex(tree) ==
    CHOOSE i \in Selection(tree) : \A j \in Selection(tree) : i <= j

\* delete_event (lines 277-289)
delete_event ==
    /\ IF Selection(events_tree) = {}
       THEN /\ message' = [kind |-> "warning",
                           text |-> "Please select an event to delete"]
            /\ UNCHANGED <<events, events_tree, last_add>>
       ELSE LET item_index == SelectedIndex(events_tree)
            IN  IF item_index <= Len(events)
                THEN /\ events' = RemoveAt(events, item_index)
                     /\ events_tree' = RemoveAt(events_tree,
                                                SelectedIndex(events_tree))
                     /\ message' = NoMessage
                     /\ last_add' = [pending |-> FALSE, list |-> <<>>,
                                     undone |-> last_add.pending
                                         /\ item_index = Len(events_tree),
                                     removed |-> item_index]
                ELSE \* del raises IndexError before the row is deleted
                     /\ message' = [kind |-> "traceback", text |-> "IndexError"]
                     /\ UNCHANGED <<events, events_tree, last_add>>
    /\ handler' = "delete_event"
    /\ export' = NoExport
    /\ UNCHANGED <<color_presets, config_vars>>
    /\ UNCHANGED other_than_app

\* the user changes the selection of the Treeview (selectmode extended)
select_rows(rows) ==
    /\ rows # Selection(events_tree)
    /\ events_tree' = [i \in 1..Len(events_tree) |->
                          [events_tree[i] EXCEPT !.selected = (i \in rows)]]
    /\ handler' = "select_rows"
    /\ message' = NoMessage
    /\ export' = NoExport
    /\ UNCHANGED <<events, color_presets, config_vars, last_add>>
    /\ UNCHANGED other_than_app

\* choose_custom_color (lines 221-231) with the colour the dialog returned;
\* <<>> when the dialog was cancelled
choose_custom_color(color) ==
    /\ IF color # <<>>
       THEN color_presets' = [n \in DOMAIN color_presets \cup {"Custom"} |->
                                IF n = "Custom" THEN color ELSE color_presets[n]]
       ELSE UNCHANGED color_presets
    /\ handler' = "choose_custom_color"
    /\ message' = NoMessage
    /\ export' = NoExport
    /\ UNCHANGED <<events, events_tree, config_vars, last_add>>
    /\ UNCHANGED other_than_app

----------------------------------------------------------------------------
(* Inputs of the parser *)

MaxHourLen == 2     \* digits typed before the separator
MaxMinLen  == 2     \* digits typed after the separator
MaxSpaces  == 1     \* blanks between the digits and the meridiem

HourDigits   == {"0", "1", "2", "5"}
MinuteDigits == {"0", "5", "6"}
Separators   == {<<>>, <<":">>, <<".">>}
Meridiems    == {<<>>, <<"A", "M">>, <<"p", "m">>, <<"P", "x">>}
Paddings     == {<<>>, <<" ">>}

StringsUpTo(chars, n) == UNION {[1..k -> chars] : k \in 0..n}

Blanks(n) == [i \in 1..n |-> " "]

\* runs of whitespace other than spaces
OtherBlanks ==
    {<<>>, <<"\t">>, <<"\n">>, <<"\r">>, <<"\f">>, <<"\r", "\n">>,
     <<VT>>, <<FS>>, <<NBSP>>}

\* letters that str.upper() changes, other than a-z
OtherLetters == {"é", "ß", "µ", "ÿ"}

\* the strings given to parse_time: at most hourlen digits, a separator, at
\* most minlen digits, at most spaces blanks and a meridiem, the times
\* between other whitespace, and times with the other letters
ParseInputs(hourlen, minlen, spaces) ==
    { pad \o h \o sep \o m \o Blanks(g) \o mer \o pad :
        pad \in Paddings,
        h \in StringsUpTo(HourDigits, hourlen),
        sep \in Separators,
        m \in StringsUpTo(MinuteDigits, minlen),
        g \in 0..spaces,
        mer \in Meridiems }
    \cup
    { left \o t \o gap \o mer \o right :
        left \in OtherBlanks, right \in OtherBlanks, gap \in OtherBlanks,
        t \in {<<"2">>, <<"1", "2", ":", "3", "0">>},
        mer \in {<<>>, <<"P", "M">>} }
    \cup
    UNION {{<<"2", c>>, <<"2", " ", c, "m">>, <<"2", " ", "p", "m", c>>} :
              c \in OtherLetters}

----------------------------------------------------------------------------
(* The parser, one loop iteration per step *)

ParseIdle ==
    /\ parse_arg = <<>>
    /\ time_str = <<>>
    /\ pattern_idx = 0
    /\ parse_pc = "idle"
    /\ parse_out = <<>>

CmpIdle ==
    /\ cmp_a = <<>> /\ cmp_b = <<>>
    /\ cmp_fa = FZero /\ cmp_fb = FZero
    /\ cmp_pc = "idle"
    /\ cmp_less = FALSE

ColorIdle ==
    /\ hex_color = <<>>
    /\ rgb = <<>>
    /\ color_pc = "idle"
    /\ color_out = <<>>

InitParse ==
    /\ parse_arg \in ParseInputs(MaxHourLen, MaxMinLen, MaxSpaces)
    /\ time_str = <<>>
    /\ pattern_idx = 0
    /\ parse_pc = "called"
    /\ parse_out = <<>>
    /\ CmpIdle /\ ColorIdle /\ AppInit

\* line 27, and the entry of the loop
ParseNormalize ==
    /\ parse_pc = "called"
    /\ time_str' = Normalize(parse_arg)
    /\ pattern_idx' = 1
    /\ parse_pc' = "loop"
    /\ UNCHANGED <<parse_arg, parse_out>>
    /\ UNCHANGED other_than_parse

\* lines 43-67: one pattern tried
ParseStep ==
    /\ parse_pc = "loop"
    /\ pattern_idx <= NumPatterns
    /\ LET r == TryPattern(time_str, pattern_idx)
       IN  CASE r.kind = "return" ->
                   /\ parse_pc' = "returned"
                   /\ parse_out' = <<r.hour, r.minute>>
                   /\ UNCHANGED pattern_idx
             [] r.kind = "break" ->
                   /\ parse_pc' = "raised"
                   /\ UNCHANGED <<parse_out, pattern_idx>>
             [] r.kind = "next" ->
                   /\ pattern_idx' = pattern_idx + 1
                   /\ UNCHANGED <<parse_pc, parse_out>>
    /\ UNCHANGED <<parse_arg, time_str>>
    /\ UNCHANGED other_than_parse

\* line 69: the loop ended without a return
ParseExhausted ==
    /\ parse_pc = "loop"
    /\ pattern_idx > NumPatterns
    /\ parse_pc' = "raised"
    /\ UNCHANGED <<parse_arg, time_str, pattern_idx, parse_out>>
    /\ UNCHANGED other_than_parse

NextParse == ParseNormalize \/ ParseStep \/ ParseExhausted

SpecParse == InitParse /\ [][NextParse]_vars

----------------------------------------------------------------------------
(* Claims about parse_time *)

\* the pattern under the loop position matches, and its hour or minute is
\* out of range
RangeFailureHere ==
    /\ parse_pc = "loop"
    /\ pattern_idx <= NumPatterns
    /\ ReMatch(patterns[pattern_idx].re, time_str) # NoMatch
    /\ TryPattern(time_str, pattern_idx).kind = "break"

\* C1: after a pattern that matches with an out-of-range hour or minute,
\* parse_time goes on to the next pattern of the list; it does not raise
\* at that pattern.
C1_ContinuesAfterRangeFailure ==
    [][RangeFailureHere =>
          (parse_pc' = "loop" /\ pattern_idx' = pattern_idx + 1)]_vars

\* The five shapes, stated by decomposition of the string: hour digits,
\* separator, minute digits, blanks, meridiem.
IsBlank(s) == \A i \in 1..Len(s) : s[i] \in Whitespace

MeridiemWords == {<<"A", "M">>, <<"P", "M">>}

\* the conversion as the specification states it
MeridiemHour(hour, mer) ==
    CASE mer = <<"P", "M">> /\ hour # 12 -> hour + 12
      [] mer = <<"A", "M">> /\ hour = 12 -> 0
      [] OTHER -> hour

\* s = hour digits (a of them) ++ tail
HourPart(s, a) == SubSeq(s, 1, a)

\* the (hour, minute) pairs that a reading of s as one of the five shapes
\* gives, before the range test
ShapeReadings(s) ==
    LET n == Len(s)
        \* tail from position p is blanks then a meridiem word
        MerAt(p) == IF n - p + 1 >= 2 /\ SubSeq(s, n - 1, n) \in MeridiemWords
                       /\ IsBlank(SubSeq(s, p, n - 2))
                    THEN {SubSeq(s, n - 1, n)} ELSE {}
        WithSep(c) ==
            UNION { IF a + 3 <= n /\ IsDigit(HourPart(s, a)) /\ s[a + 1] = c
                       /\ IsDigit(SubSeq(s, a + 2, a + 3))
                    THEN LET h == StrToInt(HourPart(s, a))
                             m == StrToInt(SubSeq(s, a + 2, a + 3))
                         IN  (IF a + 3 = n THEN {<<h, m>>} ELSE {})
                             \cup { <<MeridiemHour(h, mer), m>> :
                                       mer \in MerAt(a + 4) }
                    ELSE {} : a \in 1..2 }
        NoMinutes ==
            UNION { IF a <= n /\ IsDigit(HourPart(s, a))
                    THEN { <<MeridiemHour(StrToInt(HourPart(s, a)), mer), 0>> :
                             mer \in MerAt(a + 1) }
                    ELSE {} : a \in 1..2 }
    IN  WithSep(":") \cup WithSep(".") \cup NoMinutes

ValidReadings(s) ==
    { t \in ShapeReadings(s) :
        0 <= t[1] /\ t[1] <= 23 /\ 0 <= t[2] /\ t[2] <= 59 }

\* C2: parse_time returns exactly when the trimmed, uppercased argument
\* reads as one of the five shapes with hour in 0..23 and minute in 0..59
\* after the meridiem conversion, and it returns that (hour, minute);
\* otherwise it raises the invalid-time-format error.
C2_ParseTimeResult ==
    LET valid == ValidReadings(Upper(Strip(parse_arg)))
    IN  /\ parse_pc = "returned" => valid = {parse_out}
        /\ parse_pc = "raised"   => valid = {} /\ parse_out = <<>>

\* a PM time after noon was converted and returned
C2_Witness ==
    /\ parse_pc = "returned"
    /\ parse_out[1] > 12
    /\ Len(time_str) >= 2
    /\ SubSeq(time_str, Len(time_str) - 1, Len(time_str)) = <<"P", "M">>

----------------------------------------------------------------------------
(* Two times compared by their floats, as add_event compares them *)

CmpHours   == 0..23
CmpMinutes == {0, 1, 20, 40, 59}

TwoDigits(n) == <<DigitChar(n \div 10), DigitChar(n % 10)>>

\* accepted spellings of the times of day, and two rejected strings
CmpInputs ==
    { IntToStr(h) \o <<":">> \o TwoDigits(m) : h \in CmpHours, m \in CmpMinutes }
    \cup { IntToStr(h) \o <<".">> \o TwoDigits(m) \o mer :
              h \in 1..12, m \in {0, 59},
              mer \in {<<" ", "A", "M">>, <<"p", "m">>} }
    \cup { IntToStr(h) \o <<" ", "P", "M">> : h \in 1..12 }
    \cup { <<"2", "5", ":", "0", "0">>, <<"n", "o", "o", "n">> }

InitCompare ==
    /\ cmp_a \in CmpInputs
    /\ cmp_b \in CmpInputs
    /\ cmp_fa = FZero /\ cmp_fb = FZero
    /\ cmp_pc = "called"
    /\ cmp_less = FALSE
    /\ ParseIdle /\ ColorIdle /\ AppInit

\* both strings converted (lines 251-252), or the ValueError of parse_time
CmpConvert ==
    /\ cmp_pc = "called"
    /\ LET fa == time_to_float(cmp_a)
           fb == time_to_float(cmp_b)
       IN  IF fa = Invalid \/ fb = Invalid
           THEN /\ cmp_pc' = "raised"
                /\ UNCHANGED <<cmp_fa, cmp_fb>>
           ELSE /\ cmp_pc' = "converted"
                /\ cmp_fa' = fa
                /\ cmp_fb' = fb
    /\ UNCHANGED <<cmp_a, cmp_b, cmp_less>>
    /\ UNCHANGED other_than_cmp

\* the float comparison
CmpCompare ==
    /\ cmp_pc = "converted"
    /\ cmp_less' = FLess(cmp_fa, cmp_fb)
    /\ cmp_pc' = "compared"
    /\ UNCHANGED <<cmp_a, cmp_b, cmp_fa, cmp_fb>>
    /\ UNCHANGED other_than_cmp

NextCompare == CmpConvert \/ CmpCompare

SpecCompare == InitCompare /\ [][NextCompare]_vars

\* minutes since midnight of an accepted time string
MinuteOfDay(text) == 60 * parse_time(text)[1] + parse_time(text)[2]

\* C9: for two accepted time strings, time_to_float(a) < time_to_float(b)
\* exactly when a is strictly earlier in the day than b.
C9_FloatOrderIsTimeOrder ==
    cmp_pc = "compared" =>
        (cmp_less <=> MinuteOfDay(cmp_a) < MinuteOfDay(cmp_b))

\* two distinct times within the same hour were compared
C9_Witness ==
    /\ cmp_pc = "compared"
    /\ cmp_less
    /\ parse_time(cmp_a)[1] = parse_time(cmp_b)[1]
    /\ parse_time(cmp_a)[2] + 1 = parse_time(cmp_b)[2]

----------------------------------------------------------------------------
(* get_text_color, one step for the decoding and one for the choice *)

MaxColorLen == 7    \* length of the malformed colour strings

ChannelTexts ==
    { <<"0", "0">>, <<"F", "F">>, <<"f", "f">>, <<"7", "f">>, <<"8", "0">>,
      <<"d", "a">>, <<"3", "a">>, <<"f", "8">>,
      <<"0", "1">>, <<"a", "d">>, <<"e", "1">>,
      <<"3", "4">>, <<"9", "8">>, <<"d", "b">> }

HashPrefixes == {<<>>, <<"#">>, <<"#", "#">>}

\* two-character slices with whitespace other than a space
BlankChannelTexts ==
    { <<"\n", "f">>, <<"f", "\r">>, <<"\f", "0">>, <<"\t", "\n">>, <<"8", "0">>,
      <<VT, "f">>, <<"f", FS>>, <<NEL, "1">> }

GarbageChars == {"f", "g", "+", " "}

\* the strings given to get_text_color: three channels with or without the
\* hash, strings of at most len other characters, and channels with
\* whitespace
ColorInputs(len) ==
    { pre \o r \o g \o b :
        pre \in {<<>>, <<"#">>},
        r \in ChannelTexts, g \in ChannelTexts, b \in ChannelTexts }
    \cup { pre \o t : pre \in HashPrefixes,
                       t \in StringsUpTo(GarbageChars, len) }
    \cup { r \o g \o b : r \in BlankChannelTexts, g \in BlankChannelTexts,
                          b \in BlankChannelTexts }

InitColor ==
    /\ hex_color \in ColorInputs(MaxColorLen)
    /\ rgb = <<>>
    /\ color_pc = "called"
    /\ color_out = <<>>
    /\ ParseIdle /\ CmpIdle /\ AppInit

\* lines 324-329
ColorDecode ==
    /\ color_pc = "called"
    /\ LET c == DecodeRGB(hex_color)
       IN  IF c = Invalid
           THEN color_pc' = "raised" /\ UNCHANGED rgb
           ELSE color_pc' = "decoded" /\ rgb' = c
    /\ UNCHANGED <<hex_color, color_out>>
    /\ UNCHANGED other_than_color

\* lines 332-335
ColorPick ==
    /\ color_pc = "decoded"
    /\ color_out' = PickColor(rgb[1], rgb[2], rgb[3])
    /\ color_pc' = "returned"
    /\ UNCHANGED <<hex_color, rgb>>
    /\ UNCHANGED other_than_color

NextColor == ColorDecode \/ ColorPick

SpecColor == InitColor /\ [][NextColor]_vars

\* the colour string without its optional leading "#"
AfterHash(s) == IF s # <<>> /\ Head(s) = "#" THEN Tail(s) ELSE s

\* six hex digits after the optional "#"
WellFormedColor(s) == Len(AfterHash(s)) = 6 /\ IsHex(AfterHash(s))

\* 1000 times the luminance 0.299 R + 0.587 G + 0.114 B of a well-formed
\* colour, as an exact integer
Luminance1000(s) ==
    LET h == AfterHash(s)
    IN  299 * HexToInt(SubSeq(h, 1, 2)) + 587 * HexToInt(SubSeq(h, 3, 4))
          + 114 * HexToInt(SubSeq(h, 5, 6))

\* C7: for a well-formed colour, get_text_color returns black exactly when
\* the luminance 0.299 R + 0.587 G + 0.114 B is strictly greater than
\* 127.5, and white otherwise (white at exactly 127.5).
C7_BlackIffLuminanceAbove ==
    (WellFormedColor(hex_color) /\ color_pc \in {"returned", "raised"}) =>
        /\ color_pc = "returned"
        /\ color_out = IF Luminance1000(hex_color) > 127500
                       THEN "black" ELSE "white"

\* C8: for a malformed colour string, get_text_color raises; it returns
\* neither black nor white.
C8_MalformedColorRaises ==
    (~WellFormedColor(hex_color) /\ color_pc \in {"decoded", "returned", "raised"})
        => color_pc = "raised"

----------------------------------------------------------------------------
(* create_schedule_pdf: the layout.  Coordinates are exact: x in units of  *)
(* 1/XScale and y in units of 1/YScale of a layout unit, so that 0.05, 0.8 *)
(* and the offsets 0.15, 0.1, 0.3 and 1/2 of a height are whole numbers.   *)
(* A float-hour enters as its exact value hour + minute/60.                *)

XScale == 20
YScale == 6000

StartHour == 8                          \* start_hour (line 346)
DayWidth  == 2 * XScale                 \* day_width = 2.0 (line 362)
Inset     == XScale \div 20             \* 0.05 (line 411)
HeaderHeight == (8 * YScale) \div 10    \* 0.8 (line 370)

\* the dict of lines 348-351
EndHourOf(text) ==
    CASE text = <<"6", " ", "P", "M">> -> 18
      [] text = <<"7", " ", "P", "M">> -> 19
      [] text = <<"8", " ", "P", "M">> -> 20
      [] text = <<"9", " ", "P", "M">> -> 21
      [] text = <<"1", "0", " ", "P", "M">> -> 22
      [] text = <<"1", "1", " ", "P", "M">> -> 23

\* format_hour_12h (lines 468-477)
format_hour_12h(hour) ==
    IF hour = 0 THEN <<"1", "2", ":", "0", "0", " ", "A", "M">>
    ELSE IF hour < 12 THEN IntToStr(hour) \o <<":", "0", "0", " ", "A", "M">>
    ELSE IF hour = 12 THEN <<"1", "2", ":", "0", "0", " ", "P", "M">>
    ELSE IntToStr(hour - 12) \o <<":", "0", "0", " ", "P", "M">>

\* line 340
SelectedDays(dvars) == SelectSeq(DayOrder, LAMBDA d : dvars[d])

\* total_hours * 0.8 (line 363)
TimeHeight(total_hours) == (total_hours * 8 * YScale) \div 10

\* lines 366-376
HeaderRects(selected_days, time_height) ==
    [i \in 1..Len(selected_days) |->
        [x |-> (i - 1) * DayWidth, y |-> time_height,
         width |-> DayWidth, height |-> HeaderHeight,
         label |-> Upper(selected_days[i])]]

\* HLines with range(start_hour, end_hour)
HLines_NoLast(end_hour, time_height, total_hours) ==
    [k \in 1..(end_hour - StartHour) |->
        [y |-> time_height - (k - 1) * (time_height \div total_hours),
         label |-> format_hour_12h(StartHour + k - 1)]]

\* lines 380-387: one line per hour of range(start_hour, end_hour + 1)
HLines(end_hour, time_height, total_hours) ==
    [k \in 1..(end_hour + 1 - StartHour) |->
        [y |-> time_height - (k - 1) * (time_height \div total_hours),
         label |-> format_hour_12h(StartHour + k - 1)]]

\* lines 390-391
VLines(selected_days) ==
    [i \in 1..(Len(selected_days) + 1) |-> (i - 1) * DayWidth]

\* day_positions (line 394), 0-based
InDayPositions(day, selected_days) ==
    \E i \in 1..Len(selected_days) : selected_days[i] = day

DayPosition(day, selected_days) ==
    (CHOOSE i \in 1..Len(selected_days) : selected_days[i] = day) - 1

\* 60 * (time_to_float - start_hour), for what parse_time returned
MinutesAfterStart(t) == 60 * t[1] + t[2] - 60 * StartHour

\* (time_to_float(text) - start_hour) * (time_height / total_hours), for a
\* string parse_time accepts (lines 401-405)
HourOffset(text, time_height, total_hours) ==
    (MinutesAfterStart(parse_time(text)) * (time_height \div total_hours))
        \div 60

\* lines 407-434 for one event, given x, start_y and end_y
EventRectAt(event, x, start_y, end_y) ==
    LET height  == start_y - end_y
        text_y  == end_y + height \div 2
    IN  [x |-> x + Inset, y |-> end_y,
         width |-> DayWidth - 2 * Inset, height |-> height,
         facecolor |-> event.color,
         text_color |-> get_text_color(event.color),
         text_x |-> x + DayWidth \div 2,
         title |-> event.title, title_y |-> text_y + (height * 15) \div 100,
         time |-> TimeColumn(event.start_time, event.end_time),
         time_y |-> text_y - (height * 10) \div 100,
         has_location |-> event.location # <<>>,
         location |-> event.location,
         location_y |-> text_y - (height * 30) \div 100]

\* lines 398-434 for one event
EventRect(event, selected_days, time_height, total_hours) ==
    EventRectAt(event, DayPosition(event.day, selected_days) * DayWidth,
                time_height
                  - HourOffset(event.start_time, time_height, total_hours),
                time_height
                  - HourOffset(event.end_time, time_height, total_hours))

\* the events of the list that are drawn (line 397), in list order
PlacedEvents(evs, selected_days) ==
    SelectSeq(evs, LAMBDA e : InDayPositions(e.day, selected_days))

\* an event whose drawing raises: time_to_float or get_text_color
DrawingRaises(event) ==
    \/ parse_time(event.start_time) = Invalid
    \/ parse_time(event.end_time) = Invalid
    \/ get_text_color(event.color) = "ValueError"

\* lines 450-453
TitleText(prof_name) ==
    IF Strip(prof_name) # <<>>
    THEN <<"F", "a", "l", "l", " ", "2", "0", "2", "5", " ", "S", "c", "h", "e", "d", "u", "l", "e">> \o <<" ", "-", " ">> \o Strip(prof_name)
    ELSE <<"F", "a", "l", "l", " ", "2", "0", "2", "5", " ", "S", "c", "h", "e", "d", "u", "l", "e">>

\* create_schedule_pdf without the test of lines 342-343
DaysMissing_Unchecked(selected_days) == FALSE

\* the test of line 342
DaysMissing(selected_days) == selected_days = <<>>

\* create_schedule_pdf: the document it saves, or the exception it raises
create_schedule_pdf(evs, dvars, end_text, prof_name) ==
    LET selected_days == SelectedDays(dvars)
        end_hour      == EndHourOf(end_text)
        total_hours   == end_hour - StartHour
        time_height   == TimeHeight(total_hours)
        placed        == PlacedEvents(evs, selected_days)
    IN  IF DaysMissing(selected_days)
        THEN [ok |-> FALSE,
              error |-> "Please select at least one day to include"]
        ELSE IF \E i \in 1..Len(placed) : DrawingRaises(placed[i])
        THEN [ok |-> FALSE, error |-> "ValueError"]
        ELSE [ok |-> TRUE,
              doc |-> [headers |-> HeaderRects(selected_days, time_height),
                       hlines  |-> HLines(end_hour, time_height, total_hours),
                       vlines  |-> VLines(selected_days),
                       rects   |-> [i \in 1..Len(placed) |->
                                      EventRect(placed[i], selected_days,
                                                time_height, total_hours)],
                       xlim    |-> <<-((8 * XScale) \div 10),
                                     Len(selected_days) * DayWidth
                                       + (2 * XScale) \div 10>>,
                       ylim    |-> <<-(YScale \div 2),
                                     time_height + (13 * YScale) \div 10>>,
                       title   |-> TitleText(prof_name)]]

\* generate_pdf that keeps only the drawn events in self.events
KeptEvents_Pruned(evs, dvars) == PlacedEvents(evs, SelectedDays(dvars))

\* self.events after generate_pdf: the handler does not assign it
KeptEvents(evs, dvars) == evs

\* lines 305-311 of generate_pdf: the try block around create_schedule_pdf,
\* whose result is r
ExportEffect(r, filename) ==
    IF r.ok
    THEN /\ message' = [kind |-> "info", text |-> "Success"]
         /\ export' = [asked |-> TRUE, layout |-> TRUE, written |-> TRUE,
                       file |-> [name |-> filename, doc |-> r.doc]]
    ELSE /\ message' = [kind |-> "error", text |-> r.error]
         /\ export' = [asked |-> TRUE, layout |-> TRUE, written |-> FALSE,
                       file |-> NoFile]

\* generate_pdf (lines 291-311); filename is what the save dialog returns,
\* "" when it is cancelled
generate_pdf(filename) ==
    /\ IF events = <<>>
       THEN /\ message' = [kind |-> "warning",
                           text |-> "Please add at least one event"]
            /\ export' = NoExport
       ELSE IF filename = ""
       THEN /\ message' = NoMessage
            /\ export' = [asked |-> TRUE, layout |-> FALSE,
                          written |-> FALSE, file |-> NoFile]
       ELSE ExportEffect(create_schedule_pdf(events, day_vars, end_hour_var,
                                             prof_name_var), filename)
    /\ handler' = "generate_pdf"
    /\ events' = KeptEvents(events, day_vars)
    /\ UNCHANGED <<events_tree, color_presets, config_vars, last_add>>
    /\ UNCHANGED other_than_app

\* the user toggles a day checkbutton
toggle_day(day) ==
    /\ day_vars' = [day_vars EXCEPT ![day] = ~day_vars[day]]
    /\ handler' = "toggle_day"
    /\ message' = NoMessage
    /\ export' = NoExport
    /\ UNCHANGED <<list_vars, end_hour_var, prof_name_var, last_add>>
    /\ UNCHANGED other_than_app

\* the user picks a value of the end-time combobox
set_end_hour(text) ==
    /\ text # end_hour_var
    /\ end_hour_var' = text
    /\ handler' = "set_end_hour"
    /\ message' = NoMessage
    /\ export' = NoExport
    /\ UNCHANGED <<list_vars, day_vars, prof_name_var, last_add>>
    /\ UNCHANGED other_than_app

\* the user edits the name entry
set_prof_name(text) ==
    /\ text # prof_name_var
    /\ prof_name_var' = text
    /\ handler' = "set_prof_name"
    /\ message' = NoMessage
    /\ export' = NoExport
    /\ UNCHANGED <<list_vars, day_vars, end_hour_var, last_add>>
    /\ UNCHANGED other_than_app

----------------------------------------------------------------------------
(* The event list: add_event, delete_event, the selection, the custom      *)
(* colour and exports under the initial options                            *)

\* what the form holds when Add Event is pressed:
\* <<title, day, start time, end time, location, colour name>>
AddForms == {
    \* accepted
    <<<<"\n", "A">>, Monday, <<"2", "\n", "P", "M">>, <<"1", "4", ":", "3", "0", "\r">>, <<"R">>, "Blue">>,
    <<<<"B">>, Wednesday, <<" ", "9", ".", "0", "5", " ", "a", "m">>, <<"1", "4", ":", "0", "0">>, <<>>, "ETSU Gold">>,
    <<<<"A">>, Monday, <<"1", "1", ":", "5", "9", " ", "A", "M">>, <<"1", "2", " ", "p", "m">>, <<" ">>, "Custom">>,
    \* a required field left empty
    <<<<" ", "\f">>, Monday, <<"2", " ", "P", "M">>, <<"1", "4", ":", "3", "0">>, <<"R">>, "Blue">>,
    <<<<"A">>, <<>>, <<"2", " ", "P", "M">>, <<"1", "4", ":", "3", "0">>, <<"R">>, "Blue">>,
    <<<<"A">>, Monday, <<>>, <<"1", "4", ":", "3", "0">>, <<"R">>, "Blue">>,
    <<<<"A">>, Monday, <<"2", " ", "P", "M">>, <<" ">>, <<"R">>, "Blue">>,
    \* a time that does not parse
    <<<<"A">>, Monday, <<"2", "5", ":", "0", "0">>, <<"1", "4", ":", "3", "0">>, <<"R">>, "Blue">>,
    <<<<"A">>, Monday, <<"2", " ", "P", "M">>, <<"2", ":", "3", " ", "P", "M">>, <<"R">>, "Blue">>,
    \* start not before end
    <<<<"A">>, Monday, <<"2", " ", "P", "M">>, <<"1", "4", ":", "0", "0">>, <<"R">>, "Blue">>,
    <<<<"A">>, Monday, <<"1", "4", ":", "3", "0">>, <<"2", " ", "P", "M">>, <<"R">>, "Blue">> }

CustomColors == {<<>>, <<"#", "d", "a", "3", "a", "f", "8">>}
FileNames    == {"", "schedule.pdf"}

Init ==
    /\ AppInit
    /\ ParseIdle /\ CmpIdle /\ ColorIdle

Next ==
    \/ \E form \in AddForms :
          /\ form[6] \in DOMAIN color_presets
          /\ add_event(form[1], form[2], form[3], form[4], form[5], form[6])
    \/ delete_event
    \/ \E rows \in SUBSET (1..Len(events_tree)) : select_rows(rows)
    \/ \E color \in CustomColors : choose_custom_color(color)
    \/ \E filename \in FileNames : generate_pdf(filename)

Spec == Init /\ [][Next]_vars

----------------------------------------------------------------------------
(* Exports under every choice of the options, for lists of events that     *)
(* add_event built from these forms                                        *)

SampleForms == <<
    <<<<"O", "f", "f", "i", "c", "e", " ", "H", "o", "u", "r", "s">>, Monday,
      <<"9", ":", "0", "0", " ", "A", "M">>, <<"1", "0", ":", "3", "0", " ", "A", "M">>,
      <<"R", "o", "o", "m", " ", "2", "1", "0">>, "Blue">>,
    <<<<"L", "a", "b">>, Wednesday, <<"2", " ", "P", "M">>, <<"1", "4", ".", "3", "0">>, <<>>, "ETSU Gold">>,
    <<<<"S", "e", "m", "i", "n", "a", "r">>, Friday, <<"7", " ", "a", "m">>, <<"1", "1", ":", "5", "9", " ", "p", "m">>, <<"R">>, "Custom">> >>

SamplePresets ==
    [n \in DOMAIN InitialPresets \cup {"Custom"} |->
        IF n = "Custom" THEN <<"#", "d", "a", "3", "a", "f", "8">> ELSE InitialPresets[n]]

SampleOutcome(i) ==
    AddOutcome(SampleForms[i][1], SampleForms[i][2], SampleForms[i][3],
               SampleForms[i][4], SampleForms[i][5], SampleForms[i][6],
               SamplePresets)

NameInputs == {<<>>, <<" ">>, <<"D", "r">>}

\* the list and the rows that a sequence of accepted forms leaves
SampleList(outcomes) ==
    /\ \A i \in 1..Len(outcomes) : outcomes[i].kind = "added"
    /\ events = [i \in 1..Len(outcomes) |-> outcomes[i].event]
    /\ events_tree = [i \in 1..Len(outcomes) |-> outcomes[i].row]

InitExport ==
    /\ \E n \in 0..Len(SampleForms) :
          SampleList([i \in 1..n |-> SampleOutcome(i)])
    /\ color_presets = SamplePresets
    /\ day_vars = [d \in Days |-> TRUE]
    /\ end_hour_var = <<"6", " ", "P", "M">>
    /\ prof_name_var = <<>>
    /\ handler = "none"
    /\ message = NoMessage
    /\ export = NoExport
    /\ last_add = NoAdd
    /\ ParseIdle /\ CmpIdle /\ ColorIdle

NextExport ==
    \/ \E day \in Days : toggle_day(day)
    \/ \E text \in EndHourTexts : set_end_hour(text)
    \/ \E text \in NameInputs : set_prof_name(text)
    \/ \E filename \in FileNames : generate_pdf(filename)

SpecExport == InitExport /\ [][NextExport]_vars

----------------------------------------------------------------------------
(* Claims about the event list *)

\* C3: every event of the list has a non-empty title and day, start and
\* end strings that parse_time accepts, and a start float-hour strictly
\* below its end float-hour; every event rectangle of a saved document has
\* a height above 0.
C3_EventsValidAndRectsPositive ==
    /\ \A i \in 1..Len(events) :
          /\ events[i].title # <<>>
          /\ events[i].day # <<>>
          /\ parse_time(events[i].start_time) # Invalid
          /\ parse_time(events[i].end_time) # Invalid
          /\ FLess(time_to_float(events[i].start_time),
                   time_to_float(events[i].end_time))
    /\ export.written =>
          \A k \in 1..Len(export.file.doc.rects) :
              export.file.doc.rects[k].height > 0

\* a document with the rectangles of two events was saved
C3_Witness ==
    /\ Len(events) = 2
    /\ export.written
    /\ Len(export.file.doc.rects) = 2

\* C4: when the row that the last add_event appended is the selected one,
\* delete_event leaves the event list as it was before that add_event.
C4_AddThenDeleteRestores ==
    [][(/\ last_add.pending
        /\ Selection(events_tree) = {Len(events_tree)}
        /\ handler' = "delete_event")
       => events' = last_add.list]_vars

\* an event was added to a list of two different events and then deleted:
\* the two are back, in their order
C4_Witness ==
    /\ handler = "delete_event"
    /\ last_add.undone
    /\ Len(events) = 2
    /\ events[1] # events[2]

\* row i of the Treeview shows event i of the list: its day, its times,
\* its title and its location
RowShowsEvent(row, event) ==
    /\ row.values[1] = event.day
    /\ row.values[2] = event.start_time \o <<" ", "-", " ">> \o event.end_time
    /\ row.values[3] = event.title
    /\ row.values[4] = event.location

RowsCorrespond ==
    /\ Len(events_tree) = Len(events)
    /\ \A i \in 1..Len(events) : RowShowsEvent(events_tree[i], events[i])

\* the sequence after is the sequence before without its element k, the
\* others in their order
IsWithout(after, before, k) ==
    /\ Len(after) = Len(before) - 1
    /\ \A i \in 1..Len(after) :
          after[i] = before[IF i < k THEN i ELSE i + 1]

\* a delete_event step: with no row selected the list and the rows stay;
\* otherwise the first selected row and the event at its index are removed
DeleteRemovesShown ==
    IF \A i \in 1..Len(events_tree) : ~events_tree[i].selected
    THEN events' = events /\ events_tree' = events_tree
    ELSE \E k \in 1..Len(events_tree) :
            /\ events_tree[k].selected
            /\ \A j \in 1..(k - 1) : ~events_tree[j].selected
            /\ RowShowsEvent(events_tree[k], events[k])
            /\ IsWithout(events', events, k)
            /\ IsWithout(events_tree', events_tree, k)

\* C11: after any sequence of add_event and delete_event (and selections)
\* the rows and the list have the same length and row i shows event i;
\* delete_event removes the event shown in the (first) selected row and
\* keeps the order of the others; with no row selected it changes nothing.
C11_RowsMatchList ==
    /\ []RowsCorrespond
    /\ [][handler' = "delete_event" => DeleteRemovesShown]_vars

\* the second of three rows was selected and deleted: the two different
\* events around it are left, with their rows
C11_Witness ==
    /\ handler = "delete_event"
    /\ message = NoMessage
    /\ last_add.removed = 2
    /\ Len(events) = 2
    /\ Len(events_tree) = 2
    /\ events[1] # events[2]

----------------------------------------------------------------------------
(* Claims about the export *)

\* the positions of the events whose day is selected
DrawnPositions == {i \in 1..Len(events) : day_vars[events[i].day]}

NumSelectedDays == Cardinality({d \in Days : day_vars[d]})

\* C5: generate_pdf, whatever its outcome, leaves the event list and the
\* options (selected days, end hour, name) as they were; a saved document
\* draws only the events of the selected days, and the others stay in the
\* list.
C5_ExportLeavesModelUnchanged ==
    [][handler' = "generate_pdf" =>
         /\ events' = events
         /\ day_vars' = day_vars
         /\ end_hour_var' = end_hour_var
         /\ prof_name_var' = prof_name_var
         /\ export'.written =>
               Len(export'.file.doc.rects) = Cardinality(DrawnPositions)]_vars

\* a document was saved while an event of an unselected day is in the list
C5_Witness ==
    /\ handler = "generate_pdf"
    /\ export.written
    /\ DrawnPositions # 1..Len(events)
    /\ DrawnPositions # {}

\* C6: with no events generate_pdf warns before the layout is invoked;
\* with events and no selected day the layout fails with the
\* no-days-selected error; neither writes a document, and a document that
\* is written is complete.
C6_ExportAllOrNothing ==
    handler = "generate_pdf" =>
        /\ events = <<>> =>
              /\ message = [kind |-> "warning",
                            text |-> "Please add at least one event"]
              /\ ~export.asked /\ ~export.layout
              /\ ~export.written
        /\ (events # <<>> /\ NumSelectedDays = 0) =>
              /\ ~export.written
              /\ export.layout =>
                    message = [kind |-> "error",
                               text |-> "Please select at least one day to include"]
        /\ export.written =>
              /\ message.kind = "info"
              /\ Len(export.file.doc.headers) = NumSelectedDays
              /\ NumSelectedDays >= 1
              /\ Len(export.file.doc.rects) = Cardinality(DrawnPositions)
              /\ export.file.doc.hlines # <<>>
              /\ export.file.doc.vlines # <<>>

\* an export with events and no selected day failed
C6_Witness ==
    /\ handler = "generate_pdf"
    /\ events # <<>>
    /\ NumSelectedDays = 0
    /\ export.layout
    /\ message.kind = "error"

\* C10: a saved document has numSelectedDays + 1 vertical grid lines and
\* endHour - 8 + 1 horizontal grid lines, whatever the events.
C10_GridLineCounts ==
    export.written =>
        /\ Len(export.file.doc.vlines) = NumSelectedDays + 1
        /\ Len(export.file.doc.hlines) = parse_time(end_hour_var)[1] - 8 + 1

\* a document for three of the days and an end hour of 9 PM was saved
C10_Witness ==
    /\ export.written
    /\ NumSelectedDays = 3
    /\ end_hour_var = <<"9", " ", "P", "M">>
    /\ Len(events) = 3

====
